---- MODULE Spec2Model ----
(***************************************************************************)
(* A model of eosio::zmq_plugin_impl (zmq_plugin.cpp): the trace cache,    *)
(* the fork detector, the action-tree walker, the enrichment filter and    *)
(* the framing of the five event kinds onto the ZMQ PUSH socket.           *)
(*                                                                         *)
(* Names are modelled as strings.  A transaction trace is a record         *)
(*   [id, receipt, action_traces]                                          *)
(* and an action trace is a record                                         *)
(*   [act |-> [account, name, authorization, data],                        *)
(*    receipt |-> [receiver],                                              *)
(*    inline_traces |-> <<action trace, ...>>].                            *)
(* A JSON document is modelled by the record of the reflected fields; of   *)
(* zmq_action_object the fields read from the chain alone                  *)
(* (global_action_seq, block_time, last_irreversible_block) are left out,  *)
(* and a resource_balance is reduced to its account_name.  Action payloads *)
(* are taken to decode (data_as does not throw).                           *)
(*                                                                         *)
(* The behaviour starts with the plugin constructed and the options        *)
(* parsed; plugin_initialize is the first step.                            *)
(* Each handler is one step.  The step records the notification in `call`  *)
(* (with the state it found) and its send_msg calls in `out`; the engine   *)
(* delivers the next notification after the handler has returned.          *)
(***************************************************************************)
EXTENDS Integers, Sequences, FiniteSets, TLC

VARIABLES options,        \* the variables_map the application parsed
          socket_bind_str,\* string, the endpoint plugin_initialize read
          sender_socket,  \* zmq::socket_t: the endpoints it is bound to
          connections,    \* the engine signals whose scoped_connection is set
          cached_traces,  \* std::map<transaction_id_type, transaction_trace_ptr>
          _end_block,     \* uint32_t, highest block number seen
          out,            \* the send_msg calls of the notification in progress,
                          \* each with what the socket answered
          call,           \* the notification in progress: its input, the state
                          \* it found and how it ended ("none": engine's turn)
          correlation,    \* history: per transaction, the trace last applied
                          \* with a receipt and the blocks accepted since
          consumer,       \* history: what a consumer of the socket holds
          aborted         \* history: the on_accepted_block call a raising send
                          \* cut short, when it was the last notification

vars == <<options, socket_bind_str, sender_socket, connections,
          cached_traces, _end_block, out, call, correlation, consumer,
          aborted>>

\* The history variables: no handler reads them; a specification that has
\* a use for one records it next to the handlers' steps.
history == <<correlation, consumer, aborted>>

\* What plugin_initialize sets up and the handlers leave alone.
setup == <<options, socket_bind_str, sender_socket, connections>>

-----------------------------------------------------------------------------
(* Bounds of the model *)

MaxBlockNum == 3
\* Longest document, in bytes, of the framing specification
MaxContentLength == 2
\* Accepted blocks counted after a transaction was applied ("that many or more")
MaxAcceptedSince == 2
\* Most tables and most rows of a database of the balance specification
MaxTables == 2
MaxRows == 3

-----------------------------------------------------------------------------
(* Constants of the program *)

SENDER_BIND == "zmq-sender-bind"
SENDER_BIND_DEFAULT == "tcp://127.0.0.1:5556"
MSGTYPE_ACTION_TRACE == 0
MSGTYPE_IRREVERSIBLE_BLOCK == 1
MSGTYPE_FORK == 2
MSGTYPE_ACCEPTED_BLOCK == 3
MSGTYPE_FAILED_TX == 4

system_account_name == "eosio"

system_accounts ==
  { system_account_name,
    "eosio.msig", "eosio.token", "eosio.ram", "eosio.ramfee",
    "eosio.stake", "eosio.vpay", "eosio.bpay", "eosio.saving" }

blacklist_actions ==
  [ a \in {system_account_name, "blocktwitter"} |->
      IF a = system_account_name THEN {"onblock"} ELSE {"tweet"} ]

\* transaction_receipt_header::status_enum, symbolic name |-> raw code
status_enum ==
  [ s \in {"executed", "soft_fail", "hard_fail", "delayed", "expired"} |->
      CASE s = "executed"  -> 0
        [] s = "soft_fail" -> 1
        [] s = "hard_fail" -> 2
        [] s = "delayed"   -> 3
        [] s = "expired"   -> 4 ]

\* The empty name (value 0), which converts to false.
NoName == ""

-----------------------------------------------------------------------------
(* Order of std::set<name>: names compare by their 64-bit value, which for  *)
(* the names of the model is the order of this list.                        *)

NameOrder ==
  << "alice", "blocktwitter", "bob", "carol", "eosio", "eosio.token", "token.x" >>

RECURSIVE SortedFrom(_, _)
SortedFrom(S, i) ==
  IF i > Len(NameOrder) THEN <<>>
  ELSE (IF NameOrder[i] \in S THEN <<NameOrder[i]>> ELSE <<>>)
         \o SortedFrom(S, i + 1)

\* The elements of a std::set<name> in iteration order.
SetIteration(S) == SortedFrom(S, 1)

-----------------------------------------------------------------------------
(* Action Tree Walker *)

\* The switch on at.act.name for actions of the system contract.
PayloadAccounts(act) ==
  LET data == act.data
      n == act.name
  IN  CASE n = "newaccount" -> {data.name}
        [] n \in {"setcode", "setabi", "updateauth", "deleteauth",
                  "linkauth", "unlinkauth"} -> {data.account}
        [] n \in {"buyrambytes", "buyram"} ->
             {data.payer} \cup
               (IF data.receiver # data.payer THEN {data.receiver} ELSE {})
        [] n = "sellram" -> {data.account}
        [] n \in {"delegatebw", "undelegatebw"} ->
             {data.from} \cup
               (IF data.receiver # data.from THEN {data.receiver} ELSE {})
        [] n = "refund" -> {data.owner}
        [] n = "regproducer" -> {data.producer}
        [] n = "bidname" -> {}
        [] n = "unregprod" -> {data.producer}
        [] n = "regproxy" -> {data.proxy}
        [] n = "voteproducer" ->
             {data.voter} \cup
               (IF data.proxy # NoName THEN {data.proxy} ELSE {})
        [] n = "claimrewards" -> {data.owner}
        [] OTHER -> {}

\* A walker that also counts the accounts that authorized the action.
OwnAccountsWithActors(at) ==
  {at.act.account}
    \cup (IF at.receipt.receiver # at.act.account
            THEN {at.receipt.receiver} ELSE {})
    \cup { at.act.authorization[i].actor : i \in DOMAIN at.act.authorization }

\* A walker that reads the payload whatever contract the action is on.
OwnAccountsAnyContract(at) ==
  {at.act.account}
    \cup (IF at.receipt.receiver # at.act.account
            THEN {at.receipt.receiver} ELSE {})
    \cup PayloadAccounts(at.act)

\* What one action adds, before the recursion into its inline traces.
OwnAccounts(at) ==
  {at.act.account}
    \cup (IF at.receipt.receiver # at.act.account
            THEN {at.receipt.receiver} ELSE {})
    \cup (IF at.act.account = system_account_name
            THEN PayloadAccounts(at.act) ELSE {})

\* A walker that takes no contract of system_accounts for a token contract.
OwnTokensOffSystemAccounts(at) ==
  IF at.act.account \notin system_accounts
       /\ at.act.name \in {"transfer", "issue", "open"}
    THEN {at.act.account} ELSE {}

OwnTokens(at) ==
  IF at.act.account # system_account_name
       /\ at.act.name \in {"transfer", "issue", "open"}
    THEN {at.act.account} ELSE {}

RECURSIVE find_accounts_and_tokens(_)
find_accounts_and_tokens(at) ==
  LET sub == [ i \in DOMAIN at.inline_traces |->
                 find_accounts_and_tokens(at.inline_traces[i]) ]
  IN  [ accounts |->
          OwnAccounts(at) \cup UNION { sub[i].accounts : i \in DOMAIN sub },
        token_contracts |->
          OwnTokens(at) \cup UNION { sub[i].token_contracts : i \in DOMAIN sub } ]

-----------------------------------------------------------------------------
(* Balance Enricher *)

\* A filter that lets every account through.
is_account_of_interestAlways(account_name) == TRUE

is_account_of_interest(account_name) ==
  IF account_name \in system_accounts THEN FALSE ELSE TRUE

\* chain.db(): the table_id_objects (the id of a table is its position) and
\* the key_value_index rows in by_scope_primary order (t_id, primary_key).
\* A row's value is modelled by its byte length and the asset its first
\* sizeof(asset) bytes decode to.
db_table_ids ==
  << [code |-> "token.x",     scope |-> "alice", table |-> "accounts"],
     [code |-> "token.x",     scope |-> "alice", table |-> "stat"],
     [code |-> "token.x",     scope |-> "bob",   table |-> "accounts"],
     [code |-> "eosio.token", scope |-> "alice", table |-> "accounts"],
     [code |-> "eosio.token", scope |-> "eosio", table |-> "accounts"] >>

db_key_values ==
  << [t_id |-> 1, primary_key |-> 1, size |-> 16,
      asset |-> [amount |-> 5, symbol_valid |-> TRUE]],
     [t_id |-> 1, primary_key |-> 2, size |-> 8,
      asset |-> [amount |-> 0, symbol_valid |-> FALSE]],
     [t_id |-> 2, primary_key |-> 1, size |-> 40,
      asset |-> [amount |-> 9, symbol_valid |-> TRUE]],
     [t_id |-> 3, primary_key |-> 1, size |-> 16,
      asset |-> [amount |-> 7, symbol_valid |-> FALSE]],
     [t_id |-> 4, primary_key |-> 1, size |-> 24,
      asset |-> [amount |-> 3, symbol_valid |-> TRUE]],
     [t_id |-> 5, primary_key |-> 1, size |-> 16,
      asset |-> [amount |-> 1, symbol_valid |-> TRUE]] >>

SizeofAsset == 16

add_account_resource(account_name) ==
  << [account_name |-> account_name] >>

\* db.find<table_id_object, by_code_scope_table>: the id of the table with
\* that code, scope and name (the index is unique), or nullptr.
nullptr == 0

find_table_id(table_ids, code, scope, table) ==
  LET found == { i \in DOMAIN table_ids :
                   table_ids[i] = [code |-> code, scope |-> scope,
                                   table |-> table] }
  IN  IF found = {} THEN nullptr ELSE CHOOSE i \in found : TRUE

\* idx.lower_bound(boost::make_tuple(tid)): the first row, in
\* by_scope_primary order, whose t_id is not below tid; idx.end() if none.
lower_bound(key_values, tid) ==
  LET notBelow == { i \in DOMAIN key_values : key_values[i].t_id >= tid }
  IN  IF notBelow = {} THEN Len(key_values) + 1
      ELSE CHOOSE i \in notBelow : \A j \in notBelow : i <= j

\* A row loop that unpacks whatever the row holds.
RowGivesBalanceAnySize(obj) == obj.asset.symbol_valid

\* obj->value.size() >= sizeof(asset), and the unpacked symbol is valid
RowGivesBalance(obj) ==
  /\ obj.size >= SizeofAsset
  /\ obj.asset.symbol_valid

\* add_currency_balances over the tables and rows db: what it appends to
\* zao.currency_balances.
add_currency_balancesOn(db, account_name, token_code) ==
  LET t_id == find_table_id(db.table_ids, token_code, account_name, "accounts")
  IN  IF t_id = nullptr THEN <<>>
      ELSE LET lower == lower_bound(db.key_values, t_id)
               upper == lower_bound(db.key_values, t_id + 1)
               rows == SelectSeq(SubSeq(db.key_values, lower, upper - 1),
                                 RowGivesBalance)
           IN  [ i \in DOMAIN rows |->
                   [account_name |-> account_name, contract |-> token_code,
                    balance |-> rows[i].asset.amount] ]

add_currency_balances(account_name, token_code) ==
  add_currency_balancesOn([table_ids |-> db_table_ids,
                           key_values |-> db_key_values],
                          account_name, token_code)

RECURSIVE Flatten(_)
Flatten(ss) == IF ss = <<>> THEN <<>> ELSE Head(ss) \o Flatten(Tail(ss))

\* The two loops of on_action_trace over the discovered sets.
ResourceBalances(accounts) ==
  LET accs == SetIteration(accounts)
  IN  Flatten([ i \in DOMAIN accs |->
                  IF is_account_of_interest(accs[i])
                    THEN add_account_resource(accs[i]) ELSE <<>> ])

CurrencyBalances(accounts, token_contracts) ==
  LET accs == SetIteration(accounts)
      toks == SetIteration(token_contracts)
  IN  Flatten([ i \in DOMAIN accs |->
                  IF is_account_of_interest(accs[i])
                    THEN Flatten([ j \in DOMAIN toks |->
                                     add_currency_balances(accs[i], toks[j]) ])
                    ELSE <<>> ])

\* The add_currency_balances calls made: (account, contract) pairs.
CurrencyLookups(accounts, token_contracts) ==
  LET accs == SetIteration(accounts)
      toks == SetIteration(token_contracts)
  IN  Flatten([ i \in DOMAIN accs |->
                  IF is_account_of_interest(accs[i])
                    THEN [ j \in DOMAIN toks |-> <<accs[i], toks[j]>> ]
                    ELSE <<>> ])

-----------------------------------------------------------------------------
(* Event Encoder and Message Transport *)

\* The frame send_msg builds: message type, options, document.
send_msg(content, msgtype, msgopts) ==
  [msgtype |-> msgtype, msgopts |-> msgopts, content |-> content]

\* sizeof(msgtype), sizeof(msgopts)
SizeofInt32 == 4

\* The object representation of an int32_t, as memcpy reads it: the four
\* bytes of its two's complement value in the byte order of the build.
\* (The low 31 bits w and the sign bit are kept apart: the sign bit is the
\* top bit of the byte of highest weight.)
Int32Bytes(v, byte_order) ==
  LET w == IF v >= 0 THEN v ELSE (v + 2147483647) + 1
      sign == IF v >= 0 THEN 0 ELSE 128
      le == << w % 256, (w \div 256) % 256,
               (w \div 65536) % 256, (w \div 16777216) + sign >>
  IN  IF byte_order = "little" THEN le
      ELSE [ i \in 1..SizeofInt32 |-> le[SizeofInt32 + 1 - i] ]

\* A frame builder that does not advance ptr after the message type.
messageNoAdvance(content, msgtype, msgopts, byte_order) ==
  Int32Bytes(msgopts, byte_order)
    \o [ i \in 1..SizeofInt32 |-> 0 ] \o content

\* The buffer send_msg fills: a message of content.length() + 4 + 4 bytes,
\* msgtype, msgopts and the bytes of content copied in behind each other.
message(content, msgtype, msgopts, byte_order) ==
  Int32Bytes(msgtype, byte_order) \o Int32Bytes(msgopts, byte_order) \o content

\* One send_msg call; src = <<receipt index, top-level action index>> tells
\* which part of the block it was derived from (<<0, 0>>: the block itself).
\* A call site that passes the message type as the options, too.
EmitTypeAsOptions(content, msgtype, src, lookups) ==
  [frame |-> send_msg(content, msgtype, msgtype), src |-> src,
   lookups |-> lookups]

Emit(content, msgtype, src, lookups) ==
  [frame |-> send_msg(content, msgtype, 0), src |-> src, lookups |-> lookups]

IsBlacklisted(act) ==
  /\ act.account \in DOMAIN blacklist_actions
  /\ act.name \in blacklist_actions[act.account]

\* An encoder that leaves the blacklist out.
on_action_traceUnfiltered(at, block, src) ==
  LET found == find_accounts_and_tokens(at)
      zao == [ block_num |-> block.block_num,
               action_trace |-> at,
               resource_balances |-> ResourceBalances(found.accounts),
               currency_balances |->
                 CurrencyBalances(found.accounts, found.token_contracts) ]
  IN  << Emit(zao, MSGTYPE_ACTION_TRACE, src,
              CurrencyLookups(found.accounts, found.token_contracts)) >>

\* An encoder that makes an event for every inline action as well.
RECURSIVE on_action_traceWithInlines(_, _, _)
on_action_traceWithInlines(at, block, src) ==
  IF IsBlacklisted(at.act) THEN <<>>
  ELSE on_action_traceUnfiltered(at, block, src)
         \o Flatten([ i \in DOMAIN at.inline_traces |->
                        on_action_traceWithInlines(at.inline_traces[i],
                                                   block, src) ])

on_action_trace(at, block, src) ==
  IF IsBlacklisted(at.act) THEN <<>>
  ELSE LET found == find_accounts_and_tokens(at)
           zao == [ block_num |-> block.block_num,
                    action_trace |-> at,
                    resource_balances |-> ResourceBalances(found.accounts),
                    currency_balances |->
                      CurrencyBalances(found.accounts, found.token_contracts) ]
       IN  << Emit(zao, MSGTYPE_ACTION_TRACE, src,
                   CurrencyLookups(found.accounts, found.token_contracts)) >>

-----------------------------------------------------------------------------
(* Inputs of the model *)

TxIds == {"T1", "T2"}
\* block->digest(): the hash, modelled as a short tag of the hashed content.
Digest(block_num, transactions) == <<"digest", block_num, Len(transactions)>>
NoTrace == [absent |-> TRUE]

Leaf(account, name, receiver, data) ==
  [act |-> [account |-> account, name |-> name, authorization |-> <<>>,
            data |-> data],
   receipt |-> [receiver |-> receiver],
   inline_traces |-> <<>>]

Node(account, name, receiver, data, inlines) ==
  [act |-> [account |-> account, name |-> name, authorization |-> <<>>,
            data |-> data],
   receipt |-> [receiver |-> receiver],
   inline_traces |-> inlines]

\* The action with the authorization of actor@active.
SignedBy(at, actor) ==
  [at EXCEPT !.act.authorization =
     << [actor |-> actor, permission |-> "active"] >>]

TransferData == [from |-> "alice", to |-> "bob"]

\* alice transfers to bob on token.x; both are notified.
Transfer ==
  SignedBy(Node("token.x", "transfer", "token.x", TransferData,
                << Leaf("token.x", "transfer", "alice", TransferData),
                   Leaf("token.x", "transfer", "bob", TransferData) >>),
           "alice")

\* The same transfer on a token contract that notifies nobody.
TransferUnnotified ==
  SignedBy(Leaf("token.x", "transfer", "token.x", TransferData), "alice")

\* The blacklisted housekeeping action of the system contract.
OnBlock ==
  Node("eosio", "onblock", "eosio", [header |-> "h"],
       << Leaf("eosio.token", "issue", "eosio.token", [to |-> "eosio"]) >>)

\* The blacklisted tweet, top-level.
Tweet == Leaf("blocktwitter", "tweet", "blocktwitter", [msg |-> "m"])

\* carol's contract sends a tweet inline, which pays bob on token.x.
Post ==
  Node("carol", "post", "carol", [msg |-> "m"],
       << Node("blocktwitter", "tweet", "blocktwitter", [msg |-> "m"],
               << Leaf("token.x", "transfer", "bob", TransferData) >>) >>)

\* alice stakes for bob; the system contract moves the stake inline.
Delegate ==
  Node("eosio", "delegatebw", "eosio", [from |-> "alice", receiver |-> "bob"],
       << Leaf("eosio.token", "transfer", "eosio.token",
               [from |-> "alice", to |-> "eosio.stake"]) >>)

ActionLists ==
  { <<>>, <<Transfer>>, <<TransferUnnotified>>, <<Transfer, Delegate>>,
    <<OnBlock, Post>>, <<Tweet>> }

Traces ==
  [id : TxIds, receipt : BOOLEAN, action_traces : ActionLists]

\* Statuses the blocks of the model carry.
Statuses == {"executed", "hard_fail", "expired"}

\* A receipt carries a bare identifier or a packed transaction.
TrxOf(id) ==
  IF id = "T1" THEN [which |-> "transaction_id_type", transaction_id |-> id]
               ELSE [which |-> "packed_transaction", packed |-> [id |-> id]]

\* r.trx.contains<transaction_id_type>() ? r.trx.get<transaction_id_type>()
\*                                        : r.trx.get<packed_transaction>().id()
ReceiptId(r) ==
  IF r.trx.which = "transaction_id_type" THEN r.trx.transaction_id
                                         ELSE r.trx.packed.id

Receipts == { [trx |-> TrxOf(id), status |-> st] : id \in TxIds, st \in Statuses }

\* The receipts of a block name pairwise distinct transactions.
ReceiptLists ==
  { <<>> } \cup { <<r>> : r \in Receipts }
    \cup { <<rr[1], rr[2]>> :
             rr \in { x \in Receipts \X Receipts :
                        ReceiptId(x[1]) # ReceiptId(x[2]) } }

Blocks ==
  { [block_num |-> n, digest |-> Digest(n, txs), transactions |-> txs] :
      n \in 1..MaxBlockNum, txs \in ReceiptLists }

-----------------------------------------------------------------------------
(* Trace Correlator and Fork Detector *)

\* An insertion that keeps the entry the key already has (map::emplace).
CacheAfterAppliedKeepingFirst(p) ==
  IF p.receipt /\ cached_traces[p.id] = NoTrace
    THEN [cached_traces EXCEPT ![p.id] = p] ELSE cached_traces

\* on_applied_transaction: the cache afterwards.
CacheAfterApplied(p) ==
  IF p.receipt THEN [cached_traces EXCEPT ![p.id] = p] ELSE cached_traces

\* A fork detector that misses the re-acceptance of the same number.
IsForkStrictlyBelow(block_num) == _end_block > block_num

\* _end_block >= block_num
IsFork(block_num) == _end_block >= block_num

\* A fork report that names the highest block seen, not the incoming one.
ForkSendsHighestSeen(block) ==
  IF IsFork(block.block_num)
    THEN << Emit([invalid_block_num |-> _end_block],
                 MSGTYPE_FORK, <<0, 0>>, <<>>) >>
    ELSE <<>>

ForkSends(block) ==
  IF IsFork(block.block_num)
    THEN << Emit([invalid_block_num |-> block.block_num],
                 MSGTYPE_FORK, <<0, 0>>, <<>>) >>
    ELSE <<>>

AcceptedSends(block) ==
  << Emit([accepted_block_num |-> block.block_num,
           accepted_block_digest |-> block.digest],
          MSGTYPE_ACCEPTED_BLOCK, <<0, 0>>, <<>>) >>

\* A loop body that looks the trace up first and falls back to the failure
\* report only when there is none.
ReceiptSendsTraceFirst(block, ri) ==
  LET r == block.transactions[ri]
      id == ReceiptId(r)
  IN  IF cached_traces[id] # NoTrace
        THEN LET ats == cached_traces[id].action_traces
             IN  Flatten([ ai \in DOMAIN ats |->
                             on_action_trace(ats[ai], block, <<ri, ai>>) ])
        ELSE IF r.status = "executed" THEN <<>>
        ELSE << Emit([trx_id |-> id,
                      block_num |-> block.block_num,
                      status_name |-> r.status,
                      status_int |-> status_enum[r.status]],
                     MSGTYPE_FAILED_TX, <<ri, 0>>, <<>>) >>

\* The body of the loop over block->transactions for receipt number ri.
ReceiptSends(block, ri) ==
  LET r == block.transactions[ri]
      id == ReceiptId(r)
  IN  IF r.status = "executed"
        THEN IF cached_traces[id] = NoTrace \/ ~cached_traces[id].receipt
               THEN <<>>
               ELSE LET ats == cached_traces[id].action_traces
                    IN  Flatten([ ai \in DOMAIN ats |->
                                    on_action_trace(ats[ai], block, <<ri, ai>>) ])
        ELSE << Emit([trx_id |-> id,
                      block_num |-> block.block_num,
                      status_name |-> r.status,
                      status_int |-> status_enum[r.status]],
                     MSGTYPE_FAILED_TX, <<ri, 0>>, <<>>) >>

\* A loop that gives up on the block at the first executed receipt that has
\* no cached trace (break for continue).
RECURSIVE ReceiptsUntilGap(_, _)
ReceiptsUntilGap(block, ri) ==
  IF ri > Len(block.transactions) THEN <<>>
  ELSE LET r == block.transactions[ri]
       IN  IF r.status = "executed" /\ cached_traces[ReceiptId(r)] = NoTrace
             THEN <<>>
             ELSE ReceiptSends(block, ri) \o ReceiptsUntilGap(block, ri + 1)

BlockSendsUntilGap(block) ==
  ForkSends(block) \o AcceptedSends(block) \o ReceiptsUntilGap(block, 1)

\* A handler that reports the block after its transactions.
BlockSendsAcceptedLast(block) ==
  ForkSends(block)
    \o Flatten([ ri \in DOMAIN block.transactions |-> ReceiptSends(block, ri) ])
    \o AcceptedSends(block)

\* Every send_msg call on_accepted_block makes when no send raises.
BlockSends(block) ==
  ForkSends(block) \o AcceptedSends(block)
    \o Flatten([ ri \in DOMAIN block.transactions |-> ReceiptSends(block, ri) ])

\* sender_socket.send(message): true, false (EAGAIN), or zmq::error_t raised.
\* raiseAt is the send that raises (0: none), notSent the sends that return
\* false; send_msg drops the returned bool.
Attempts(sends, raiseAt, notSent) ==
  [ i \in 1..(IF raiseAt = 0 THEN Len(sends) ELSE raiseAt) |->
      [frame |-> sends[i].frame, src |-> sends[i].src,
       lookups |-> sends[i].lookups,
       outcome |-> IF i = raiseAt THEN "raised"
                   ELSE IF i \in notSent THEN "notsent" ELSE "sent"] ]

\* A counter that only ever rises (the highest number, not the last one).
EndBlockAfterKeepingHighest(block, raiseAt) ==
  IF _end_block >= block.block_num THEN _end_block ELSE block.block_num

\* A handler that assigns _end_block at its end, next to the clear.
EndBlockAfterAssignedLast(block, raiseAt) ==
  IF raiseAt # 0 THEN _end_block ELSE block.block_num

\* _end_block = block_num is reached unless the Fork send raised.
EndBlockAfter(block, raiseAt) ==
  IF raiseAt # 0 /\ raiseAt <= Len(ForkSends(block))
    THEN _end_block ELSE block.block_num

\* A flush that erases only the traces the block referenced.
CacheAfterBlockErasingReferenced(block, raiseAt) ==
  IF raiseAt # 0 THEN cached_traces
  ELSE [ id \in TxIds |->
           IF \E ri \in DOMAIN block.transactions :
                ReceiptId(block.transactions[ri]) = id
             THEN NoTrace ELSE cached_traces[id] ]

\* A handler that never clears the cache.
CacheAfterBlockKeepingAll(block, raiseAt) == cached_traces

\* cached_traces.clear() is reached when no send raised.
CacheAfterBlock(block, raiseAt) ==
  IF raiseAt # 0 THEN cached_traces ELSE [id \in TxIds |-> NoTrace]

-----------------------------------------------------------------------------
(* Start of the plugin *)

\* What the operator wrote: nothing, an empty endpoint, an endpoint.
CommandLines ==
  { <<>>,
    << [name |-> SENDER_BIND, value |-> ""] >>,
    << [name |-> SENDER_BIND, value |-> "tcp://0.0.0.0:5557"] >> }

\* set_program_options declares zmq-sender-bind with a default value, so the
\* parsed map always has the option; defaulted tells that it was not given.
set_program_options(cmdline) ==
  [ n \in {SENDER_BIND} |->
      IF \E i \in DOMAIN cmdline : cmdline[i].name = n
        THEN [value |-> (CHOOSE v \in { cmdline[i].value : i \in DOMAIN cmdline } : TRUE),
              defaulted |-> FALSE]
        ELSE [value |-> SENDER_BIND_DEFAULT, defaulted |-> TRUE] ]

\* The three signals of the controller the plugin subscribes to.
Signals == {"applied_transaction", "accepted_block", "irreversible_block"}

\* plugin_initialize: an empty endpoint disables the plugin; otherwise the
\* socket is bound (which may raise zmq::error_t) and the three handlers are
\* connected.
plugin_initialize ==
  /\ call.op = "constructed"
  /\ socket_bind_str' = options[SENDER_BIND].value
  /\ IF socket_bind_str' = ""
       THEN /\ call' = [op |-> "plugin_initialize", result |-> "returned"]
            /\ UNCHANGED <<sender_socket, connections>>
       ELSE \E bindRaises \in BOOLEAN :
              /\ sender_socket' =
                   IF bindRaises THEN sender_socket
                   ELSE [endpoints |-> sender_socket.endpoints \cup {socket_bind_str'}]
              /\ connections' = IF bindRaises THEN connections ELSE Signals
              /\ call' = [op |-> "plugin_initialize",
                          result |-> IF bindRaises THEN "raised" ELSE "returned"]
  /\ UNCHANGED <<options, cached_traces, _end_block, out>>

-----------------------------------------------------------------------------
(* The notifications of the execution engine *)

\* No aborted call to remember.
NoAbort == [absent |-> TRUE]

\* The state a notification found, kept with the record of the call.
Pre == [cached_traces |-> cached_traces, _end_block |-> _end_block]

\* The plugin as zmq_plugin::zmq_plugin() leaves it, and the parsed options.
Init ==
  /\ options \in { set_program_options(c) : c \in CommandLines }
  /\ socket_bind_str = ""
  /\ sender_socket = [endpoints |-> {}]
  /\ connections = {}
  /\ cached_traces = [id \in TxIds |-> NoTrace]
  /\ _end_block = 0
  /\ out = <<>>
  /\ call = [op |-> "constructed"]
  /\ correlation = [id \in TxIds |-> [trace |-> NoTrace, accepted_since |-> 0]]
  /\ consumer = [accepted |-> <<>>, tagged |-> {}]
  /\ aborted = NoAbort

on_applied_transaction(p) ==
  /\ call.op = "none"
  /\ "applied_transaction" \in connections
  /\ cached_traces' = CacheAfterApplied(p)
  /\ out' = <<>>
  /\ call' = [op |-> "on_applied_transaction", p |-> p, result |-> "returned",
              pre |-> Pre]
  /\ UNCHANGED <<setup, _end_block>>

on_accepted_block(block) ==
  /\ call.op = "none"
  /\ "accepted_block" \in connections
  /\ UNCHANGED setup
  /\ \E sends \in {BlockSends(block)} :
      /\ \E raiseAt \in 0..Len(sends) :
           \E notSent \in SUBSET (1..(IF raiseAt = 0 THEN Len(sends)
                                                      ELSE raiseAt - 1)) :
             /\ _end_block' = EndBlockAfter(block, raiseAt)
             /\ cached_traces' = CacheAfterBlock(block, raiseAt)
             /\ out' = Attempts(sends, raiseAt, notSent)
             /\ call' = [op |-> "on_accepted_block", block |-> block,
                         result |-> IF raiseAt = 0 THEN "returned" ELSE "raised",
                         pre |-> Pre]

IrreversibleSends(bs) ==
  << Emit([irreversible_block_num |-> bs.block_num,
           irreversible_block_digest |-> bs.digest],
          MSGTYPE_IRREVERSIBLE_BLOCK, <<0, 0>>, <<>>) >>

\* A handler that takes the irreversible block for the newest one and
\* drops the traces cached so far.
on_irreversible_blockFlushing(bs) ==
  /\ call.op = "none"
  /\ "irreversible_block" \in connections
  /\ \E sends \in {IrreversibleSends(bs)} :
      /\ \E raiseAt \in 0..Len(sends) :
           \E notSent \in SUBSET (1..(IF raiseAt = 0 THEN Len(sends)
                                                      ELSE raiseAt - 1)) :
             /\ out' = Attempts(sends, raiseAt, notSent)
             /\ call' = [op |-> "on_irreversible_block", block |-> bs,
                         result |-> IF raiseAt = 0 THEN "returned" ELSE "raised",
                         pre |-> Pre]
      /\ _end_block' = bs.block_num
      /\ cached_traces' = [id \in TxIds |-> NoTrace]
      /\ UNCHANGED setup

on_irreversible_block(bs) ==
  /\ call.op = "none"
  /\ "irreversible_block" \in connections
  /\ \E sends \in {IrreversibleSends(bs)} :
      /\ \E raiseAt \in 0..Len(sends) :
           \E notSent \in SUBSET (1..(IF raiseAt = 0 THEN Len(sends)
                                                      ELSE raiseAt - 1)) :
             /\ out' = Attempts(sends, raiseAt, notSent)
             /\ call' = [op |-> "on_irreversible_block", block |-> bs,
                         result |-> IF raiseAt = 0 THEN "returned" ELSE "raised",
                         pre |-> Pre]
      /\ UNCHANGED <<setup, cached_traces, _end_block>>

\* The handler hands control back to the engine's signal dispatch, which
\* delivers the next notification only then (one thread, no re-entrancy).
ReturnToEngine ==
  /\ call.op \notin {"none", "constructed"}
  /\ call' = [op |-> "none"]
  /\ out' = <<>>
  /\ UNCHANGED <<setup, cached_traces, _end_block>>

\* The engine raises a signal only between two handlers.
Idle == call.op = "none"

Next ==
  \/ plugin_initialize /\ UNCHANGED history
  \/ Idle /\ \E p \in Traces : on_applied_transaction(p) /\ UNCHANGED history
  \/ Idle /\ \E block \in Blocks : on_accepted_block(block) /\ UNCHANGED history
  \/ Idle /\ \E bs \in Blocks : on_irreversible_block(bs) /\ UNCHANGED history
  \/ ReturnToEngine /\ UNCHANGED history

Spec == Init /\ [][Next]_vars

-----------------------------------------------------------------------------
(* Correlation: the handlers with, per transaction, the record of the trace *)
(* last applied with a receipt and of the blocks accepted since             *)

ActionListsCorrelation == { <<Transfer, Delegate>>, <<OnBlock, Post>> }

TracesCorrelation ==
  [id : TxIds, receipt : BOOLEAN, action_traces : ActionListsCorrelation]

InitCorrelation == Init /\ options = set_program_options(<<>>)

\* on_applied_transaction stores p exactly when it has a receipt.
CorrelationAfterApplied(p) ==
  IF p.receipt
    THEN [correlation EXCEPT ![p.id] = [trace |-> p, accepted_since |-> 0]]
    ELSE correlation

\* One more on_accepted_block has run to its end.
CorrelationAfterBlock ==
  [ id \in TxIds |->
      IF correlation[id].trace = NoTrace THEN correlation[id]
      ELSE [correlation[id] EXCEPT
              !.accepted_since =
                 IF @ < MaxAcceptedSince THEN @ + 1 ELSE MaxAcceptedSince] ]

NextCorrelation ==
  \/ plugin_initialize /\ UNCHANGED history
  \/ Idle /\ \E p \in TracesCorrelation :
       /\ on_applied_transaction(p)
       /\ correlation' = CorrelationAfterApplied(p)
       /\ UNCHANGED <<consumer, aborted>>
  \/ Idle /\ \E block \in Blocks :
       /\ on_accepted_block(block)
       /\ correlation' = IF call'.result = "returned"
                           THEN CorrelationAfterBlock ELSE correlation
       /\ UNCHANGED <<consumer, aborted>>
  \/ Idle /\ \E bs \in Blocks : on_irreversible_block(bs) /\ UNCHANGED history
  \/ ReturnToEngine /\ UNCHANGED history

SpecCorrelation == InitCorrelation /\ [][NextCorrelation]_vars

-----------------------------------------------------------------------------
(* Retraction: the handlers with a socket that never refuses a message      *)
(* without raising, and a consumer at the other end of it that keeps the    *)
(* block number of every event it holds and, on a Fork event for n, drops   *)
(* what it holds for n and above                                            *)

\* The consumer after one message.
Receive(c, frame) ==
  CASE frame.msgtype = MSGTYPE_FORK ->
         LET n == frame.content.invalid_block_num
             Below(b) == b < n
         IN  [accepted |-> SelectSeq(c.accepted, Below),
              tagged |-> { b \in c.tagged : b < n }]
    [] frame.msgtype = MSGTYPE_ACCEPTED_BLOCK ->
         [c EXCEPT !.accepted = Append(@, frame.content.accepted_block_num)]
    [] frame.msgtype \in {MSGTYPE_ACTION_TRACE, MSGTYPE_FAILED_TX} ->
         [c EXCEPT !.tagged = @ \cup {frame.content.block_num}]
    [] OTHER -> c

\* The consumer after the messages of one handler, in the order of the
\* send_msg calls; a send that raised has delivered nothing.
RECURSIVE ReceiveAll(_, _)
ReceiveAll(c, attempts) ==
  IF attempts = <<>> THEN c
  ELSE ReceiveAll(IF Head(attempts).outcome = "sent"
                    THEN Receive(c, Head(attempts).frame) ELSE c,
                  Tail(attempts))

\* sender_socket.send never returned false.
NoneRefused(attempts) ==
  \A i \in DOMAIN attempts : attempts[i].outcome # "notsent"

NextConsumer ==
  \/ plugin_initialize /\ UNCHANGED history
  \/ Idle /\ \E p \in TracesCorrelation :
       on_applied_transaction(p) /\ UNCHANGED history
  \/ Idle /\ \E block \in Blocks :
       /\ on_accepted_block(block)
       /\ NoneRefused(out')
       /\ consumer' = ReceiveAll(consumer, out')
       /\ UNCHANGED <<correlation, aborted>>
  \/ Idle /\ \E bs \in Blocks :
       /\ on_irreversible_block(bs)
       /\ NoneRefused(out')
       /\ consumer' = ReceiveAll(consumer, out')
       /\ UNCHANGED <<correlation, aborted>>
  \/ ReturnToEngine /\ UNCHANGED history

SpecConsumer == InitCorrelation /\ [][NextConsumer]_vars

-----------------------------------------------------------------------------
(* Abort: the handlers with the record of the on_accepted_block call that   *)
(* a send raising at the AcceptedBlock event or later has cut short, kept   *)
(* while the engine delivers the notification that follows it               *)

\* What the call that hands control back leaves to remember: its block
\* number and the cache it found, when it is an on_accepted_block call that
\* a send after the Fork event aborted.
AbortedBy ==
  IF /\ call.op = "on_accepted_block"
     /\ call.result = "raised"
     /\ out[Len(out)].frame.msgtype # MSGTYPE_FORK
    THEN [block_num |-> call.block.block_num,
          found |-> call.pre.cached_traces]
    ELSE NoAbort

NextAbort ==
  \/ plugin_initialize /\ UNCHANGED history
  \/ Idle /\ \E p \in TracesCorrelation :
       on_applied_transaction(p) /\ UNCHANGED history
  \/ Idle /\ \E block \in Blocks : on_accepted_block(block) /\ UNCHANGED history
  \/ Idle /\ \E bs \in Blocks : on_irreversible_block(bs) /\ UNCHANGED history
  \/ /\ ReturnToEngine
     /\ aborted' = AbortedBy
     /\ UNCHANGED <<correlation, consumer>>

SpecAbort == InitCorrelation /\ [][NextAbort]_vars

-----------------------------------------------------------------------------
(* The walker on its own, over action trees *)

\* Actions of the system contract, one or more per entry of the switch,
\* and two the switch does not know.
SystemActions ==
  { [name |-> "newaccount",   data |-> [creator |-> "alice", name |-> "carol"]],
    [name |-> "setcode",      data |-> [account |-> "alice"]],
    [name |-> "setabi",       data |-> [account |-> "bob"]],
    [name |-> "updateauth",   data |-> [account |-> "alice", permission |-> "active"]],
    [name |-> "deleteauth",   data |-> [account |-> "bob", permission |-> "claim"]],
    [name |-> "linkauth",     data |-> [account |-> "alice", code |-> "token.x"]],
    [name |-> "unlinkauth",   data |-> [account |-> "bob", code |-> "token.x"]],
    [name |-> "buyrambytes",  data |-> [payer |-> "alice", receiver |-> "bob"]],
    [name |-> "buyram",       data |-> [payer |-> "alice", receiver |-> "alice"]],
    [name |-> "buyram",       data |-> [payer |-> "bob", receiver |-> "carol"]],
    [name |-> "sellram",      data |-> [account |-> "alice"]],
    [name |-> "delegatebw",   data |-> [from |-> "alice", receiver |-> "bob"]],
    [name |-> "delegatebw",   data |-> [from |-> "carol", receiver |-> "carol"]],
    [name |-> "undelegatebw", data |-> [from |-> "bob", receiver |-> "alice"]],
    [name |-> "refund",       data |-> [owner |-> "alice"]],
    [name |-> "regproducer",  data |-> [producer |-> "prod1"]],
    [name |-> "bidname",      data |-> [bidder |-> "alice", newname |-> "dave"]],
    [name |-> "unregprod",    data |-> [producer |-> "prod2"]],
    [name |-> "regproxy",     data |-> [proxy |-> "carol"]],
    [name |-> "voteproducer", data |-> [voter |-> "alice", proxy |-> NoName,
                                        producers |-> <<"prod1", "prod2">>]],
    [name |-> "voteproducer", data |-> [voter |-> "bob", proxy |-> "carol",
                                        producers |-> <<>>]],
    [name |-> "claimrewards", data |-> [owner |-> "prod1"]],
    [name |-> "transfer",     data |-> [from |-> "alice", to |-> "bob"]],
    [name |-> "setpriv",      data |-> [account |-> "dave"]] }

\* Actions of other contracts: token actions, an action whose name and
\* payload look like the system contract's, an action of no interest.
OtherActions ==
  { [account |-> "token.x",     name |-> "transfer", data |-> TransferData],
    [account |-> "token.x",     name |-> "issue",    data |-> [to |-> "alice"]],
    [account |-> "eosio.token", name |-> "open",     data |-> [owner |-> "bob"]],
    [account |-> "eosio.token", name |-> "transfer",
     data |-> [from |-> "alice", to |-> "eosio.stake"]],
    [account |-> "eosio.token", name |-> "retire",   data |-> [memo |-> "m"]],
    [account |-> "carol",       name |-> "delegatebw",
     data |-> [from |-> "dave", receiver |-> "prod1"]],
    [account |-> "carol",       name |-> "post",     data |-> [msg |-> "m"]] }

\* Action traces without inline traces: each action as its contract gets
\* it, and some as a notified account gets it.
WalkLeaves ==
  { Leaf(system_account_name, a.name, system_account_name, a.data) :
      a \in SystemActions }
    \cup { Leaf(a.account, a.name, a.account, a.data) : a \in OtherActions }
    \cup { Leaf(a.account, a.name, "bob", a.data) :
             a \in { x \in OtherActions : x.name = "transfer" } }
    \cup { Leaf(system_account_name, "delegatebw", "dave",
                [from |-> "alice", receiver |-> "bob"]) }

\* The actions that get inline traces in the trees of the model.
WalkParents ==
  { l \in WalkLeaves :
      <<l.act.account, l.act.name>> \in
        { <<"eosio", "delegatebw">>, <<"eosio", "voteproducer">>,
          <<"eosio", "bidname">>, <<"carol", "post">>,
          <<"token.x", "transfer">> } }

WithInlines(at, inlines) == [at EXCEPT !.inline_traces = inlines]

\* Trees of depth one, two and three.
WalkTrees ==
  WalkLeaves
    \cup { WithInlines(a, <<b>>) : a \in WalkParents, b \in WalkLeaves }
    \cup { WithInlines(a, <<b, c>>) :
             a \in WalkParents, b \in WalkLeaves, c \in WalkLeaves }
    \cup { WithInlines(a, <<b, WithInlines(c, <<d>>)>>) :
             a \in {Post, Tweet}, b \in WalkParents, c \in WalkParents,
             d \in WalkParents }

InitWalk ==
  /\ options = set_program_options(<<>>)
  /\ socket_bind_str = ""
  /\ sender_socket = [endpoints |-> {}]
  /\ connections = {}
  /\ cached_traces = [id \in TxIds |-> NoTrace]
  /\ _end_block = 0
  /\ out = <<>>
  /\ call = [op |-> "none"]
  /\ correlation = [id \in TxIds |-> [trace |-> NoTrace, accepted_since |-> 0]]
  /\ consumer = [accepted |-> <<>>, tagged |-> {}]
  /\ aborted = NoAbort

\* find_accounts_and_tokens, called with two empty sets as on_action_trace
\* calls it; the record of the call keeps what it has put into them.
find_accounts_and_tokensWalk(at) ==
  /\ call.op = "none"
  /\ call' = [op |-> "find_accounts_and_tokens", at |-> at,
              result |-> "returned", found |-> find_accounts_and_tokens(at)]
  /\ UNCHANGED <<setup, cached_traces, _end_block, out, history>>

NextWalk ==
  \/ Idle /\ \E at \in WalkTrees : find_accounts_and_tokensWalk(at)
  \/ ReturnToEngine /\ UNCHANGED history

SpecWalk == InitWalk /\ [][NextWalk]_vars

-----------------------------------------------------------------------------
(* Framing: send_msg on its own, over message types, options and documents *)

\* The lowest int32_t.
Int32Min == -2147483647 - 1

\* int32_t values: the five message types, byte boundaries, the extremes.
Int32Samples ==
  { 0, 1, 2, 3, 4, 255, 256, 65536, 16909060, 2147483647, -1, Int32Min }

\* Bytes a document may hold: NUL, a quote, an opening brace, 0xFF.
ContentBytes == { 0, 34, 123, 255 }

RECURSIVE ContentsOfLength(_)
ContentsOfLength(n) ==
  IF n = 0 THEN { <<>> }
  ELSE { Append(c, b) : c \in ContentsOfLength(n - 1), b \in ContentBytes }

Contents == UNION { ContentsOfLength(n) : n \in 0..MaxContentLength }

InitFrame ==
  /\ options = set_program_options(<<>>)
  /\ socket_bind_str = ""
  /\ sender_socket = [endpoints |-> {}]
  /\ connections = {}
  /\ cached_traces = [id \in TxIds |-> NoTrace]
  /\ _end_block = 0
  /\ out = <<>>
  /\ call = [op |-> "none"]
  /\ correlation = [id \in TxIds |-> [trace |-> NoTrace, accepted_since |-> 0]]
  /\ consumer = [accepted |-> <<>>, tagged |-> {}]
  /\ aborted = NoAbort

\* send_msg up to the call of sender_socket.send: out holds the message.
send_msgFrame(content, msgtype, msgopts) ==
  /\ call.op = "none"
  /\ \E byte_order \in {"little", "big"} :
       /\ out' = << [message |-> message(content, msgtype, msgopts, byte_order)] >>
       /\ call' = [op |-> "send_msg", content |-> content, msgtype |-> msgtype,
                   msgopts |-> msgopts, byte_order |-> byte_order]
  /\ UNCHANGED <<setup, cached_traces, _end_block, history>>

NextFrame ==
  \/ Idle /\ \E content \in Contents, msgtype \in Int32Samples,
                  msgopts \in Int32Samples :
       send_msgFrame(content, msgtype, msgopts)
  \/ ReturnToEngine /\ UNCHANGED history

SpecFrame == InitFrame /\ [][NextFrame]_vars

-----------------------------------------------------------------------------
(* Balances: add_currency_balances on its own, over databases *)

\* Tables a token contract and its holders have: balances of two accounts,
\* the supply statistics, balances at another contract.
TableIdObjects ==
  { [code |-> "token.x",     scope |-> "alice", table |-> "accounts"],
    [code |-> "token.x",     scope |-> "alice", table |-> "stat"],
    [code |-> "token.x",     scope |-> "bob",   table |-> "accounts"],
    [code |-> "eosio.token", scope |-> "alice", table |-> "accounts"] }

\* The tables of a database, in the order of their ids: no two alike.
TableIdsOfLength(m) ==
  { ts \in [1..m -> TableIdObjects] :
      \A i, j \in 1..m : ts[i] = ts[j] => i = j }

\* Lengths of a row's value: shorter than an asset, an asset, a longer row.
RowSizes == { SizeofAsset - 8, SizeofAsset, SizeofAsset + 24 }

\* n rows of m tables in by_scope_primary order, each given by the table it
\* is of, its length and whether its symbol is valid: t_id never falls.
RowShapes(n, m) ==
  { sh \in [1..n -> (1..m) \X RowSizes \X BOOLEAN] :
      \A i \in 1..(n - 1) : sh[i][1] <= sh[i + 1][1] }

\* The rows themselves: the primary key rises within a table, and the
\* amount tells the rows of a database apart.
KeyValuesOf(sh) ==
  [ i \in DOMAIN sh |->
      LET pk == Cardinality({ j \in 1..i : sh[j][1] = sh[i][1] })
      IN  [t_id |-> sh[i][1], primary_key |-> pk, size |-> sh[i][2],
           asset |-> [amount |-> 10 * sh[i][1] + pk,
                      symbol_valid |-> sh[i][3]]] ]

\* The accounts and token contracts the walker may have found.
BalanceAccounts == { "alice", "bob" }
BalanceContracts == { "token.x", "eosio.token" }

InitBalance ==
  /\ options = set_program_options(<<>>)
  /\ socket_bind_str = ""
  /\ sender_socket = [endpoints |-> {}]
  /\ connections = {}
  /\ cached_traces = [id \in TxIds |-> NoTrace]
  /\ _end_block = 0
  /\ out = <<>>
  /\ call = [op |-> "none"]
  /\ correlation = [id \in TxIds |-> [trace |-> NoTrace, accepted_since |-> 0]]
  /\ consumer = [accepted |-> <<>>, tagged |-> {}]
  /\ aborted = NoAbort

\* add_currency_balances with an empty zao.currency_balances; the record of
\* the call keeps what it has appended.
add_currency_balancesCall(db, account_name, token_code) ==
  /\ call.op = "none"
  /\ call' = [op |-> "add_currency_balances", db |-> db,
              account_name |-> account_name, token_code |-> token_code,
              result |-> "returned",
              currency_balances |->
                add_currency_balancesOn(db, account_name, token_code)]
  /\ UNCHANGED <<setup, cached_traces, _end_block, out, history>>

NextBalance ==
  \/ Idle /\ \E m \in 0..MaxTables, n \in 0..MaxRows :
              \E ts \in TableIdsOfLength(m), sh \in RowShapes(n, m) :
                \E account_name \in BalanceAccounts,
                   token_code \in BalanceContracts :
                  add_currency_balancesCall(
                    [table_ids |-> ts, key_values |-> KeyValuesOf(sh)],
                    account_name, token_code)
  \/ ReturnToEngine /\ UNCHANGED history

SpecBalance == InitBalance /\ [][NextBalance]_vars

-----------------------------------------------------------------------------
(* Properties *)

Accepted == call.op = "on_accepted_block"
Applied == call.op = "on_applied_transaction"
Irreversible == call.op = "on_irreversible_block"
Returned == call.result = "returned"

\* The send_msg calls of the last notification that carry message type t.
OfType(t) == { i \in DOMAIN out : out[i].frame.msgtype = t }

\* The send_msg calls derived from receipt number ri of the accepted block.
OfReceipt(ri) == { i \in DOMAIN out : out[i].src[1] = ri }

\* C1: an accepted block whose number n is at most the highest number seen
\* before the call makes exactly one Fork event, carrying n, as the first
\* event of the call (AcceptedBlock(n) being the next); a block with a
\* higher number makes no Fork event.
C1_ForkExactlyOnRegression ==
  Accepted =>
    LET n == call.block.block_num
    IN  IF n <= call.pre._end_block
          THEN /\ OfType(MSGTYPE_FORK) = {1}
               /\ out[1].frame.content = [invalid_block_num |-> n]
               /\ \A i \in OfType(MSGTYPE_ACCEPTED_BLOCK) :
                    i = 2 /\ out[i].frame.content.accepted_block_num = n
               /\ Returned => 2 \in OfType(MSGTYPE_ACCEPTED_BLOCK)
          ELSE OfType(MSGTYPE_FORK) = {}

\* Block 3 was accepted, then block 2: Fork(2), then AcceptedBlock(2).
C1_Witness ==
  /\ Accepted /\ Returned
  /\ call.pre._end_block = 3
  /\ call.block.block_num = 2
  /\ Len(out) >= 2
  /\ out[1].frame = [msgtype |-> MSGTYPE_FORK, msgopts |-> 0,
                     content |-> [invalid_block_num |-> 2]]
  /\ out[2].frame.msgtype = MSGTYPE_ACCEPTED_BLOCK
  /\ out[2].frame.content.accepted_block_num = 2

\* C2: when on_accepted_block has returned, the trace cache is empty,
\* whatever was cached and whatever the block contained.
C2_CacheEmptyAfterBlock ==
  (Accepted /\ Returned) => \A id \in TxIds : cached_traces[id] = NoTrace

\* Two traces were cached; the block named one of them as executed and the
\* other not at all.
C2_Witness ==
  /\ Accepted /\ Returned
  /\ \A id \in TxIds : call.pre.cached_traces[id] # NoTrace
  /\ Len(call.block.transactions) = 1
  /\ call.block.transactions[1].status = "executed"
  /\ OfType(MSGTYPE_ACTION_TRACE) # {}
  /\ \A id \in TxIds : cached_traces[id] = NoTrace

\* C3: when on_accepted_block has returned, every receipt of the block whose
\* status is not "executed" has made exactly one event, a FailedTransaction
\* with the transaction identifier, the block number, the status name and
\* the raw code of that status, and no ActionTrace event, also when a trace
\* with a receipt for that identifier was cached.
C3_FailedTransactionOnly ==
  (Accepted /\ Returned) =>
    \A ri \in DOMAIN call.block.transactions :
      LET r == call.block.transactions[ri]
      IN  r.status # "executed" =>
            /\ Cardinality(OfReceipt(ri)) = 1
            /\ \A i \in OfReceipt(ri) :
                 out[i].frame =
                   [msgtype |-> MSGTYPE_FAILED_TX, msgopts |-> 0,
                    content |-> [trx_id |-> ReceiptId(r),
                                 block_num |-> call.block.block_num,
                                 status_name |-> r.status,
                                 status_int |-> status_enum[r.status]]]
            /\ \A i \in OfType(MSGTYPE_FAILED_TX) :
                 out[i].frame.content.trx_id = ReceiptId(r) => i \in OfReceipt(ri)

\* T1 expired in the block although its trace, with a receipt and actions
\* that are not blacklisted, was cached.
C3_Witness ==
  /\ Accepted /\ Returned
  /\ \E ri \in DOMAIN call.block.transactions :
       LET r == call.block.transactions[ri]
           t == call.pre.cached_traces[ReceiptId(r)]
       IN  /\ r.status = "expired"
           /\ t # NoTrace
           /\ t.receipt
           /\ t.action_traces = <<Transfer, Delegate>>
           /\ \E i \in OfReceipt(ri) :
                /\ out[i].frame.msgtype = MSGTYPE_FAILED_TX
                /\ out[i].frame.content.status_int = 4

\* The (account, name) pairs of the Blacklist.
BlacklistPairs == { <<"eosio", "onblock">>, <<"blocktwitter", "tweet">> }

InBlacklist(at) == <<at.act.account, at.act.name>> \in BlacklistPairs

\* Every action of a tree: the action and its inline actions at every depth.
RECURSIVE Nodes(_)
Nodes(at) ==
  {at} \cup UNION { Nodes(at.inline_traces[i]) : i \in DOMAIN at.inline_traces }

\* The actions of a tree that are neither blacklisted nor below a
\* blacklisted action.
RECURSIVE VisibleNodes(_)
VisibleNodes(at) ==
  IF InBlacklist(at) THEN {}
  ELSE {at} \cup UNION { VisibleNodes(at.inline_traces[i]) :
                          i \in DOMAIN at.inline_traces }

\* What an ActionTrace event shows of the discovery: the accounts with a
\* resource snapshot, and the (account, contract) balance lookups.
SnapshotAccounts(a) ==
  { a.frame.content.resource_balances[k].account_name :
      k \in DOMAIN a.frame.content.resource_balances }

LookupPairs(a) == { a.lookups[k] : k \in DOMAIN a.lookups }

\* The top-level action an ActionTrace event of the last call was made for.
TopLevelOf(a) ==
  call.pre.cached_traces[ReceiptId(call.block.transactions[a.src[1]])]
    .action_traces[a.src[2]]

\* C4 as claimed: a blacklisted action, top-level or nested, and its subtree
\* contribute no account and no token contract to any ActionTrace event.
C4_NoDiscoveryAtAnyDepth ==
  Accepted =>
    \A i \in OfType(MSGTYPE_ACTION_TRACE) :
      LET vis == VisibleNodes(TopLevelOf(out[i]))
      IN  /\ vis # {}
          /\ SnapshotAccounts(out[i])
               \subseteq UNION { OwnAccounts(nd) : nd \in vis }
          /\ { pr[2] : pr \in LookupPairs(out[i]) }
               \subseteq UNION { OwnTokens(nd) : nd \in vis }

\* C4 (amended): a blacklisted top-level action makes no ActionTrace event
\* and nothing of its tree is discovered: every event is made for a
\* top-level action that is not blacklisted and shows accounts and token
\* contracts of that action's own tree only.  A blacklisted action nested
\* in such a tree is walked like any other action: it and the actions
\* below it contribute their accounts and token contracts to the event.
C4_TopLevelBlacklistOnly ==
  Accepted =>
    /\ \A i \in OfType(MSGTYPE_ACTION_TRACE) :
         LET at == TopLevelOf(out[i])
         IN  /\ ~InBlacklist(at)
             /\ out[i].frame.content.action_trace = at
             /\ SnapshotAccounts(out[i])
                  = UNION { OwnAccounts(nd) : nd \in Nodes(at) } \ system_accounts
             /\ { pr[2] : pr \in LookupPairs(out[i]) }
                  \subseteq UNION { OwnTokens(nd) : nd \in Nodes(at) }
             /\ SnapshotAccounts(out[i]) # {} =>
                  { pr[2] : pr \in LookupPairs(out[i]) }
                    = UNION { OwnTokens(nd) : nd \in Nodes(at) }
    /\ Returned =>
         \A ri \in DOMAIN call.block.transactions :
           LET r == call.block.transactions[ri]
               t == call.pre.cached_traces[ReceiptId(r)]
           IN  (r.status = "executed" /\ t # NoTrace) =>
                 \A ai \in DOMAIN t.action_traces :
                   InBlacklist(t.action_traces[ai]) =>
                     ~ \E i \in DOMAIN out : out[i].src = <<ri, ai>>

\* The executed trace holds the blacklisted onblock (which issues on
\* eosio.token inline) and carol's post, whose inline tweet pays bob on
\* token.x: one event, for the post, showing blocktwitter, bob and token.x
\* and nothing of onblock's tree.
C4_Witness ==
  /\ Accepted /\ Returned
  /\ \E ri \in DOMAIN call.block.transactions :
       LET r == call.block.transactions[ri]
           t == call.pre.cached_traces[ReceiptId(r)]
       IN  /\ r.status = "executed"
           /\ t # NoTrace
           /\ t.action_traces = <<OnBlock, Post>>
           /\ Cardinality(OfReceipt(ri)) = 1
           /\ \A i \in OfReceipt(ri) :
                /\ out[i].src = <<ri, 2>>
                /\ SnapshotAccounts(out[i])
                     = {"carol", "blocktwitter", "bob", "token.x"}
                /\ <<"bob", "token.x">> \in LookupPairs(out[i])
                /\ ~ \E pr \in LookupPairs(out[i]) : pr[2] = "eosio.token"

\* C5: a trace applied without a receipt leaves the cache as it was, so the
\* cache never holds a trace without a receipt; an executed receipt whose
\* transaction has no cached trace makes no event, does not make the call
\* fail (the call raises only when a send raises), and the receipts after it
\* make their events as usual.
C5_MissingTraceSkipped ==
  /\ \A id \in TxIds :
       cached_traces[id] # NoTrace => cached_traces[id].receipt
  /\ (Applied /\ ~call.p.receipt) => cached_traces = call.pre.cached_traces
  /\ Accepted =>
       /\ call.result = "raised" <=> \E i \in DOMAIN out : out[i].outcome = "raised"
       /\ \A ri \in DOMAIN call.block.transactions :
            LET r == call.block.transactions[ri]
            IN  (r.status = "executed"
                   /\ call.pre.cached_traces[ReceiptId(r)] = NoTrace) =>
                  /\ OfReceipt(ri) = {}
                  /\ \A i \in OfType(MSGTYPE_FAILED_TX) :
                       out[i].frame.content.trx_id # ReceiptId(r)
                  /\ Returned =>
                       \A rj \in DOMAIN call.block.transactions :
                         LET q == call.block.transactions[rj]
                             t == call.pre.cached_traces[ReceiptId(q)]
                         IN  rj > ri =>
                               IF q.status # "executed"
                                 THEN \E i \in OfReceipt(rj) :
                                        out[i].frame.msgtype = MSGTYPE_FAILED_TX
                               ELSE t # NoTrace =>
                                      Cardinality(OfReceipt(rj)) =
                                        Cardinality({ ai \in DOMAIN t.action_traces :
                                                        ~InBlacklist(t.action_traces[ai]) })

\* The block names T2, which has no cached trace, as executed and then T1,
\* whose cached trace makes two ActionTrace events.
C5_Witness ==
  /\ Accepted /\ Returned
  /\ Len(call.block.transactions) = 2
  /\ call.block.transactions[1].status = "executed"
  /\ call.pre.cached_traces[ReceiptId(call.block.transactions[1])] = NoTrace
  /\ call.block.transactions[2].status = "executed"
  /\ call.pre.cached_traces[ReceiptId(call.block.transactions[2])] # NoTrace
  /\ OfReceipt(1) = {}
  /\ Cardinality(OfReceipt(2)) = 2
  /\ OfReceipt(2) \subseteq OfType(MSGTYPE_ACTION_TRACE)

\* C6: on_applied_transaction of a trace with a receipt maps the trace's
\* identifier to that trace, replacing what the identifier had and leaving
\* every other entry alone; without a receipt the cache is unchanged.
\* Neither changes _end_block nor sends anything.  Every cached trace has a
\* receipt and is filed under its own identifier.
C6_AppliedStoresByIdentifier ==
  /\ Applied =>
       /\ \A id \in TxIds :
            cached_traces[id] =
              IF call.p.receipt /\ id = call.p.id
                THEN call.p ELSE call.pre.cached_traces[id]
       /\ _end_block = call.pre._end_block
       /\ out = <<>>
  /\ \A id \in TxIds :
       cached_traces[id] # NoTrace =>
         cached_traces[id].receipt /\ cached_traces[id].id = id

\* A trace with a receipt replaces another trace of the same identifier
\* while the other identifier keeps its entry.
C6_Witness ==
  /\ Applied
  /\ call.p.receipt
  /\ call.pre.cached_traces[call.p.id] # NoTrace
  /\ call.pre.cached_traces[call.p.id] # call.p
  /\ cached_traces[call.p.id] = call.p
  /\ \E id \in TxIds :
       id # call.p.id /\ cached_traces[id] # NoTrace
                      /\ cached_traces[id] = call.pre.cached_traces[id]

\* C7: on_applied_transaction and on_irreversible_block leave _end_block
\* alone; on_accepted_block of block n leaves it at n whenever it returns,
\* above its old value when the call made no Fork event, and at or below
\* its old value when it made one.
C7_EndBlockIsLastAccepted ==
  /\ (Applied \/ Irreversible) => _end_block = call.pre._end_block
  /\ Accepted =>
       /\ _end_block \in {call.pre._end_block, call.block.block_num}
       /\ Returned => _end_block = call.block.block_num
       /\ IF OfType(MSGTYPE_FORK) = {}
            THEN _end_block > call.pre._end_block
            ELSE _end_block <= call.pre._end_block

\* After block 3, block 1 is accepted: a Fork event, and the counter falls
\* to 1.
C7_Witness ==
  /\ Accepted /\ Returned
  /\ call.pre._end_block = 3
  /\ call.block.block_num = 1
  /\ OfType(MSGTYPE_FORK) # {}
  /\ _end_block = 1

\* C8: the events of one on_accepted_block(n) call are sent as: the Fork
\* event if there is one, AcceptedBlock(n), then what the receipts produce,
\* receipt after receipt in the block's order and, within a receipt, action
\* after action in the order of the trace's top-level actions; each event
\* carries what it was derived from.
C8_EventsInDerivationOrder ==
  Accepted =>
    LET k == Cardinality(OfType(MSGTYPE_FORK))
        n == call.block.block_num
    IN  /\ OfType(MSGTYPE_FORK) \subseteq {1}
        /\ OfType(MSGTYPE_ACCEPTED_BLOCK) = {k + 1} \cap DOMAIN out
        /\ \A i \in DOMAIN out :
             i > k + 1 =>
               /\ out[i].src[1] \in DOMAIN call.block.transactions
               /\ \/ /\ out[i].frame.msgtype = MSGTYPE_FAILED_TX
                     /\ out[i].src[2] = 0
                     /\ out[i].frame.content.block_num = n
                     /\ out[i].frame.content.trx_id =
                          ReceiptId(call.block.transactions[out[i].src[1]])
                  \/ /\ out[i].frame.msgtype = MSGTYPE_ACTION_TRACE
                     /\ out[i].frame.content.block_num = n
                     /\ out[i].frame.content.action_trace = TopLevelOf(out[i])
        /\ \A i, j \in DOMAIN out :
             (k + 1 < i /\ i < j) =>
               \/ out[i].src[1] < out[j].src[1]
               \/ /\ out[i].src[1] = out[j].src[1]
                  /\ out[i].src[2] < out[j].src[2]

\* A fork block with two receipts: Fork, AcceptedBlock, the two ActionTrace
\* events of the first receipt's trace in the order of its actions, and the
\* FailedTransaction event of the second receipt.
C8_Witness ==
  /\ Accepted /\ Returned
  /\ Len(out) = 5
  /\ [ i \in 1..5 |-> out[i].frame.msgtype ]
       = << MSGTYPE_FORK, MSGTYPE_ACCEPTED_BLOCK, MSGTYPE_ACTION_TRACE,
            MSGTYPE_ACTION_TRACE, MSGTYPE_FAILED_TX >>
  /\ out[3].frame.content.action_trace = Transfer
  /\ out[4].frame.content.action_trace = Delegate
  /\ out[5].frame.content.trx_id = ReceiptId(call.block.transactions[2])

\* C9: an ActionTrace event has no resource snapshot, no balance lookup and
\* no balance for an account of the SystemAccountSet, also when the walker
\* found that account; every account the walker found outside the set has
\* exactly one resource snapshot and, per token contract found, exactly one
\* balance lookup.
C9_SystemAccountsNotEnriched ==
  Accepted =>
    \A i \in OfType(MSGTYPE_ACTION_TRACE) :
      LET zao == out[i].frame.content
          nodes == Nodes(TopLevelOf(out[i]))
          found == UNION { OwnAccounts(nd) : nd \in nodes }
          tokens == UNION { OwnTokens(nd) : nd \in nodes }
      IN  /\ SnapshotAccounts(out[i]) \cap system_accounts = {}
          /\ { pr[1] : pr \in LookupPairs(out[i]) } \cap system_accounts = {}
          /\ \A b \in DOMAIN zao.currency_balances :
               zao.currency_balances[b].account_name \notin system_accounts
          /\ \A acc \in found \ system_accounts :
               /\ Cardinality({ b \in DOMAIN zao.resource_balances :
                                  zao.resource_balances[b].account_name = acc }) = 1
               /\ \A tok \in tokens :
                    Cardinality({ b \in DOMAIN out[i].lookups :
                                    out[i].lookups[b] = <<acc, tok>> }) = 1
          /\ Len(zao.resource_balances) = Cardinality(found \ system_accounts)
          /\ Len(out[i].lookups) =
               Cardinality(found \ system_accounts) * Cardinality(tokens)

\* The walker found eosio and eosio.token next to alice and bob, and the
\* token contract eosio.token: snapshots and lookups for alice and bob only.
C9_Witness ==
  /\ Accepted
  /\ \E i \in OfType(MSGTYPE_ACTION_TRACE) :
       /\ out[i].frame.content.action_trace = Delegate
       /\ find_accounts_and_tokens(Delegate).accounts
            = {"eosio", "eosio.token", "alice", "bob"}
       /\ SnapshotAccounts(out[i]) = {"alice", "bob"}
       /\ LookupPairs(out[i])
            = { <<"alice", "eosio.token">>, <<"bob", "eosio.token">> }
       /\ out[i].frame.content.currency_balances
            = << [account_name |-> "alice", contract |-> "eosio.token",
                  balance |-> 3] >>

\* C10: an operation that sends returns normally only when every one of its
\* sends was accepted by the socket.
C10_SendFailureSurfaced ==
  ((Accepted \/ Irreversible) /\ Returned) =>
    \A i \in DOMAIN out : out[i].outcome = "sent"

\* C11: when the zmq-sender-bind option is not given the plugin is inert
\* after initialization: the socket is bound to nothing, none of the three
\* signals is connected and nothing is ever sent; the socket is bound and
\* the signals are connected only when the option was given an endpoint.
C11_InertWhenNotGiven ==
  /\ options[SENDER_BIND].defaulted =>
       /\ sender_socket.endpoints = {}
       /\ connections = {}
       /\ out = <<>>
  /\ (sender_socket.endpoints # {} \/ connections # {}) =>
       /\ ~options[SENDER_BIND].defaulted
       /\ options[SENDER_BIND].value # ""

\* Scenario A: the accepted block holds one receipt, executed, and the trace
\* cached for it has a receipt and one top-level action, a transfer on
\* token.x authorized by alice.
ScenarioA ==
  /\ Accepted /\ Returned
  /\ Len(call.block.transactions) = 1
  /\ call.block.transactions[1].status = "executed"
  /\ LET t == call.pre.cached_traces[ReceiptId(call.block.transactions[1])]
     IN  /\ t # NoTrace
         /\ t.receipt
         /\ Len(t.action_traces) = 1
         /\ t.action_traces[1].act.account = "token.x"
         /\ t.action_traces[1].act.name = "transfer"
         /\ t.action_traces[1].act.authorization
              = << [actor |-> "alice", permission |-> "active"] >>

C13_IrreversibleOnlyEmits ==
  Irreversible =>
    /\ Len(out) = 1
    /\ out[1].frame =
         [msgtype |-> MSGTYPE_IRREVERSIBLE_BLOCK, msgopts |-> 0,
          content |-> [irreversible_block_num |-> call.block.block_num,
                       irreversible_block_digest |-> call.block.digest]]
    /\ cached_traces = call.pre.cached_traces
    /\ _end_block = call.pre._end_block

\* Block 1 becomes irreversible after block 2 was accepted and while a
\* trace is cached: one event, the cache and the counter as before.
C13_Witness ==
  /\ Irreversible /\ Returned
  /\ call.block.block_num = 1
  /\ call.pre._end_block = 2
  /\ \E id \in TxIds : call.pre.cached_traces[id] # NoTrace
  /\ Len(out) = 1
  /\ out[1].frame.msgtype = MSGTYPE_IRREVERSIBLE_BLOCK
  /\ cached_traces = call.pre.cached_traces
  /\ _end_block = 2

\* Reading an int32_t back from four bytes in the byte order of the build.
DecodeInt32(bytes, byte_order) ==
  LET le == IF byte_order = "little" THEN bytes
            ELSE [ i \in 1..4 |-> bytes[5 - i] ]
      w == le[1] + 256 * le[2] + 65536 * le[3] + 16777216 * (le[4] % 128)
  IN  IF le[4] >= 128 THEN (w - 2147483647) - 1 ELSE w

\* C14: the message send_msg builds is 8 bytes longer than the document;
\* its first four bytes decode to the message type, the next four to the
\* options, and the rest is the document, byte for byte, with nothing in
\* between.
C14_FrameRoundTrip ==
  call.op = "send_msg" =>
    LET m == out[1].message
    IN  /\ Len(m) = 8 + Len(call.content)
        /\ \A i \in DOMAIN m : m[i] \in 0..255
        /\ DecodeInt32(SubSeq(m, 1, 4), call.byte_order) = call.msgtype
        /\ DecodeInt32(SubSeq(m, 5, 8), call.byte_order) = call.msgopts
        /\ SubSeq(m, 9, Len(m)) = call.content

\* Message type 4, the lowest int32_t as options and a document of a NUL
\* and 0xFF, on a little-endian build.
C14_Witness ==
  /\ call.op = "send_msg"
  /\ call.msgtype = 4
  /\ call.msgopts = Int32Min
  /\ call.content = <<0, 255>>
  /\ out[1].message = <<4, 0, 0, 0, 0, 0, 0, 128, 0, 255>>

\* The tag of the event kind a document belongs to, told by its fields.
KindTag(content) ==
  CASE "action_trace" \in DOMAIN content -> 0
    [] "irreversible_block_num" \in DOMAIN content -> 1
    [] "invalid_block_num" \in DOMAIN content -> 2
    [] "accepted_block_num" \in DOMAIN content -> 3
    [] "trx_id" \in DOMAIN content -> 4
    [] OTHER -> -1

\* C15: every frame handed to the socket has options 0 and the message
\* type of the event kind its document belongs to: ActionTrace 0,
\* IrreversibleBlock 1, Fork 2, AcceptedBlock 3, FailedTransaction 4.
C15_TagMatchesKind ==
  \A i \in DOMAIN out :
    /\ out[i].frame.msgopts = 0
    /\ out[i].frame.msgtype \in 0..4
    /\ out[i].frame.msgtype = KindTag(out[i].frame.content)

\* One call that sends a Fork, an AcceptedBlock, an ActionTrace and a
\* FailedTransaction event, each under its own tag.
C15_Witness ==
  /\ Accepted
  /\ { out[i].frame.msgtype : i \in DOMAIN out } = {0, 2, 3, 4}
  /\ \A i \in DOMAIN out :
       /\ out[i].frame.msgopts = 0
       /\ out[i].frame.msgtype = KindTag(out[i].frame.content)

\* The ActionTrace events receipt number ri of the accepted block should
\* make from trace t: one per top-level action that is not blacklisted, in
\* the order of the actions.
RECURSIVE ExpectedActions(_)
ExpectedActions(ats) ==
  IF ats = <<>> THEN <<>>
  ELSE (IF InBlacklist(Head(ats)) THEN <<>> ELSE <<Head(ats)>>)
         \o ExpectedActions(Tail(ats))

\* The actions of the ActionTrace events receipt number ri did make.
RECURSIVE EventActionsFrom(_, _)
EventActionsFrom(ri, i) ==
  IF i > Len(out) THEN <<>>
  ELSE (IF out[i].src[1] = ri /\ out[i].frame.msgtype = 0
          THEN <<out[i].frame.content.action_trace>> ELSE <<>>)
         \o EventActionsFrom(ri, i + 1)

\* C16 as claimed: a transaction applied with a receipt and later included
\* as executed in an accepted block has its ActionTrace events made when
\* that block is accepted, whatever number of other blocks was accepted in
\* between.
C16_CorrelationSurvives ==
  (Accepted /\ Returned) =>
    \A ri \in DOMAIN call.block.transactions :
      LET r == call.block.transactions[ri]
          g == correlation[ReceiptId(r)]
      IN  (r.status = "executed" /\ g.trace # NoTrace) =>
            EventActionsFrom(ri, 1) = ExpectedActions(g.trace.action_traces)

\* C16 (amended): the ActionTrace events of a transaction applied with a
\* receipt are made by the first on_accepted_block that returns after the
\* application, if that block includes the transaction as executed, also
\* when traces of other transactions were applied before or after it.  A
\* block accepted in between takes the trace away: a later block that
\* includes the transaction makes no event for it.
C16_CorrelationUntilFlush ==
  (Accepted /\ Returned) =>
    \A ri \in DOMAIN call.block.transactions :
      LET r == call.block.transactions[ri]
          g == correlation[ReceiptId(r)]
      IN  (r.status = "executed" /\ g.trace # NoTrace) =>
            IF g.accepted_since = 1
              THEN EventActionsFrom(ri, 1) = ExpectedActions(g.trace.action_traces)
              ELSE OfReceipt(ri) = {}

\* T1 and T2 were applied one after the other; the first block accepted
\* since holds T2 only and makes T2's events (and T1's trace is gone).
C16_Witness ==
  /\ Accepted /\ Returned
  /\ Len(call.block.transactions) = 1
  /\ call.block.transactions[1].status = "executed"
  /\ ReceiptId(call.block.transactions[1]) = "T2"
  /\ correlation["T2"].accepted_since = 1
  /\ correlation["T2"].trace # NoTrace
  /\ correlation["T1"].trace # NoTrace
  /\ correlation["T1"].accepted_since = 1
  /\ call.pre.cached_traces["T1"] # NoTrace
  /\ EventActionsFrom(1, 1) = <<Transfer, Delegate>>
  /\ cached_traces["T1"] = NoTrace

\* C17: when on_accepted_block(n) has returned, every executed receipt
\* whose transaction had a cached trace has made one ActionTrace event,
\* tagged n, for each top-level action of the trace that is not
\* blacklisted, in the order of the actions, and nothing else; an inline
\* action has no event of its own, its account and receiver show in the
\* event of the top-level action above it.
C17_OneEventPerTopLevelAction ==
  (Accepted /\ Returned) =>
    \A ri \in DOMAIN call.block.transactions :
      LET r == call.block.transactions[ri]
          t == call.pre.cached_traces[ReceiptId(r)]
      IN  (r.status = "executed" /\ t # NoTrace) =>
            /\ EventActionsFrom(ri, 1) = ExpectedActions(t.action_traces)
            /\ Cardinality(OfReceipt(ri)) = Len(ExpectedActions(t.action_traces))
            /\ \A ai \in DOMAIN t.action_traces :
                 Cardinality({ i \in DOMAIN out : out[i].src = <<ri, ai>> })
                   = IF InBlacklist(t.action_traces[ai]) THEN 0 ELSE 1
            /\ \A i \in OfReceipt(ri) :
                 /\ out[i].frame.msgtype = 0
                 /\ out[i].frame.content.block_num = call.block.block_num
                 /\ out[i].src[2] \in DOMAIN t.action_traces
                 /\ out[i].frame.content.action_trace = t.action_traces[out[i].src[2]]
                 /\ \A nd \in Nodes(t.action_traces[out[i].src[2]]) :
                      {nd.act.account, nd.receipt.receiver} \ system_accounts
                        \subseteq SnapshotAccounts(out[i])

\* Block 2 holds one executed receipt; its trace has the transfer, with a
\* notification to alice and one to bob inline, and the delegation, with
\* an inline transfer: two events, tagged 2, none for the four inline
\* actions, alice and bob in the event of the transfer.
C17_Witness ==
  /\ Accepted /\ Returned
  /\ call.block.block_num = 2
  /\ Len(call.block.transactions) = 1
  /\ call.block.transactions[1].status = "executed"
  /\ call.pre.cached_traces[ReceiptId(call.block.transactions[1])] # NoTrace
  /\ EventActionsFrom(1, 1) = <<Transfer, Delegate>>
  /\ Cardinality(OfType(MSGTYPE_ACTION_TRACE)) = 2
  /\ \A i \in OfType(MSGTYPE_ACTION_TRACE) :
       /\ out[i].frame.content.block_num = 2
       /\ {"alice", "bob"} \subseteq SnapshotAccounts(out[i])

Walked == call.op = "find_accounts_and_tokens"

\* The dispatch table: per action name of the system contract, the fields
\* of the payload that name an affected account.
TableFields(name) ==
  CASE name = "newaccount" -> {"name"}
    [] name \in {"setcode", "setabi", "updateauth", "deleteauth", "linkauth",
                 "unlinkauth", "sellram"} -> {"account"}
    [] name \in {"buyram", "buyrambytes"} -> {"payer", "receiver"}
    [] name \in {"delegatebw", "undelegatebw"} -> {"from", "receiver"}
    [] name \in {"refund", "claimrewards"} -> {"owner"}
    [] name \in {"regproducer", "unregprod"} -> {"producer"}
    [] name = "regproxy" -> {"proxy"}
    [] name = "voteproducer" -> {"voter", "proxy"}
    [] OTHER -> {}

\* What the table gives for one action: the accounts its fields name (a
\* proxy that is not set names nobody).
TableAccounts(act) ==
  { act.data[f] : f \in TableFields(act.name) } \ {""}

\* C18: the accounts the walker returns for an action trace are, over the
\* action and its inline actions at every depth, the action's account, its
\* receiver and, for an action of the system contract only, the accounts
\* the dispatch table takes from its payload: payer/from and receiver for
\* RAM purchase and (un)delegation, the voter and a set proxy but no
\* producer for voteproducer, nothing for bidname or an unlisted action.
C18_AccountsAreTreeUnion ==
  Walked =>
    /\ call.found.accounts =
         UNION { {nd.act.account, nd.receipt.receiver}
                   \cup (IF nd.act.account = "eosio"
                           THEN TableAccounts(nd.act) ELSE {}) :
                 nd \in Nodes(call.at) }
    /\ \A nd \in Nodes(call.at) :
         /\ (nd.act.account = "eosio" /\ nd.act.name = "voteproducer") =>
              \A k \in DOMAIN nd.act.data.producers :
                nd.act.data.producers[k] \in call.found.accounts =>
                  \E other \in Nodes(call.at) \ {nd} :
                    nd.act.data.producers[k]
                      \in {other.act.account, other.receipt.receiver}
                             \cup TableAccounts(other.act)

\* carol's post runs a delegation by alice for bob, seen by dave, and a
\* vote of bob through the proxy carol, below which alice votes for two
\* producers without a proxy: the accounts are those and eosio, and no
\* producer.
C18_Witness ==
  /\ Walked
  /\ call.at.act.account = "carol"
  /\ Len(call.at.inline_traces) = 2
  /\ call.at.inline_traces[1].act.name = "delegatebw"
  /\ call.at.inline_traces[1].receipt.receiver = "dave"
  /\ call.at.inline_traces[2].act.name = "voteproducer"
  /\ call.at.inline_traces[2].act.data.proxy = "carol"
  /\ Len(call.at.inline_traces[2].inline_traces) = 1
  /\ call.at.inline_traces[2].inline_traces[1].act.name = "voteproducer"
  /\ call.at.inline_traces[2].inline_traces[1].act.data.producers
       = <<"prod1", "prod2">>
  /\ call.found.accounts = {"carol", "eosio", "dave", "alice", "bob"}

\* C19: the token contracts the walker returns are the accounts of the
\* actions of the tree, at any depth, that are named transfer, issue or
\* open and are not on the system contract: such an action on the system
\* contract adds nothing, one on eosio.token adds eosio.token.
C19_TokenContractsByName ==
  Walked =>
    call.found.token_contracts =
      { nd.act.account :
          nd \in { x \in Nodes(call.at) :
                     /\ x.act.name \in {"transfer", "issue", "open"}
                     /\ x.act.account # "eosio" } }

\* carol's post runs a transfer on the system contract and a transfer on
\* eosio.token: eosio.token is the one token contract.
C19_Witness ==
  /\ Walked
  /\ call.at.act.account = "carol"
  /\ Len(call.at.inline_traces) = 2
  /\ call.at.inline_traces[1].act.account = "eosio"
  /\ call.at.inline_traces[1].act.name = "transfer"
  /\ call.at.inline_traces[2].act.account = "eosio.token"
  /\ call.at.inline_traces[2].act.name = "transfer"
  /\ "eosio.token" \in system_accounts
  /\ call.found.token_contracts = {"eosio.token"}

\* C20: whatever blocks are accepted, the consumer holds AcceptedBlock
\* events whose numbers rise strictly in the order it received them (no
\* number twice), and every ActionTrace or FailedTransaction event it
\* holds has the number of an AcceptedBlock event it holds.
C20_ConsumerHoldsOneChain ==
  /\ \A i, j \in DOMAIN consumer.accepted :
       i < j => consumer.accepted[i] < consumer.accepted[j]
  /\ consumer.tagged
       \subseteq { consumer.accepted[i] : i \in DOMAIN consumer.accepted }

\* Blocks 1, 2 and 3 were accepted with events of their transactions, then
\* block 2 again: after the Fork event the consumer holds blocks 1 and 2
\* and events of both.
C20_Witness ==
  /\ Accepted /\ Returned
  /\ call.pre._end_block = 3
  /\ call.block.block_num = 2
  /\ OfType(MSGTYPE_FORK) = {1}
  /\ consumer.accepted = <<1, 2>>
  /\ consumer.tagged = {1, 2}

\* An on_accepted_block call that a send raising at the AcceptedBlock event
\* or at a later event has cut short.
AbortedAfterFork ==
  /\ Accepted
  /\ call.result = "raised"
  /\ out[Len(out)].frame.msgtype # MSGTYPE_FORK

\* C21: an on_accepted_block call for block n that a send raising at the
\* AcceptedBlock event or later aborts leaves _end_block = n and the cache
\* as it found it, and has made no send_msg call after the raising one, so
\* none for the receipts that follow; when the next notification is
\* on_accepted_block for the same n, that call finds this state, makes
\* Fork(n) its first event and, when it returns, has made the ActionTrace
\* events of every executed receipt whose trace the aborted call had found
\* in the cache.
C21_AbortKeepsNumberAndCache ==
  /\ AbortedAfterFork =>
       /\ _end_block = call.block.block_num
       /\ cached_traces = call.pre.cached_traces
       /\ \A i \in DOMAIN out : out[i].outcome = "raised" <=> i = Len(out)
       /\ \A ri \in DOMAIN call.block.transactions :
            ri > out[Len(out)].src[1] => OfReceipt(ri) = {}
  /\ (Accepted /\ aborted # NoAbort
        /\ call.block.block_num = aborted.block_num) =>
       /\ call.pre._end_block = aborted.block_num
       /\ call.pre.cached_traces = aborted.found
       /\ out[1].frame = [msgtype |-> MSGTYPE_FORK, msgopts |-> 0,
                          content |-> [invalid_block_num |-> aborted.block_num]]
       /\ Returned =>
            \A ri \in DOMAIN call.block.transactions :
              LET r == call.block.transactions[ri]
                  t == aborted.found[ReceiptId(r)]
              IN  (r.status = "executed" /\ t # NoTrace) =>
                    /\ Cardinality(OfReceipt(ri)) =
                         Cardinality({ ai \in DOMAIN t.action_traces :
                                         ~InBlacklist(t.action_traces[ai]) })
                    /\ \A i \in OfReceipt(ri) :
                         /\ out[i].frame.msgtype = MSGTYPE_ACTION_TRACE
                         /\ out[i].frame.content.block_num = aborted.block_num

\* Block 2 with T1 executed was accepted while T1's trace was cached and a
\* send after the Fork event raised; block 2 is accepted again with T1
\* executed: Fork(2), AcceptedBlock(2) and the ActionTrace events of T1.
C21_Witness ==
  /\ Accepted /\ Returned
  /\ aborted # NoAbort
  /\ aborted.block_num = 2
  /\ call.block.block_num = 2
  /\ aborted.found["T1"] # NoTrace
  /\ Len(call.block.transactions) = 1
  /\ ReceiptId(call.block.transactions[1]) = "T1"
  /\ call.block.transactions[1].status = "executed"
  /\ out[1].frame.msgtype = MSGTYPE_FORK
  /\ out[2].frame.msgtype = MSGTYPE_ACCEPTED_BLOCK
  /\ OfReceipt(1) # {}
  /\ OfReceipt(1) \subseteq OfType(MSGTYPE_ACTION_TRACE)
  /\ \A id \in TxIds : cached_traces[id] = NoTrace

\* C22: add_currency_balances(account, contract) appends one balance, of
\* that account and contract, for each row of the table "accounts" of the
\* contract scoped to the account whose value has at least sizeof(asset)
\* bytes and unpacks to an asset with a valid symbol, and nothing else:
\* nothing for a shorter row or an invalid symbol, nothing when the
\* database has no such table, and never a row of another table, scope or
\* contract.
C22_BalancesOfOwnValidRows ==
  call.op = "add_currency_balances" =>
    LET kv == call.db.key_values
        own == { i \in DOMAIN kv :
                   call.db.table_ids[kv[i].t_id] =
                     [code |-> call.token_code, scope |-> call.account_name,
                      table |-> "accounts"] }
        good == { i \in own : /\ kv[i].size >= SizeofAsset
                              /\ kv[i].asset.symbol_valid }
        got == call.currency_balances
    IN  /\ Len(got) = Cardinality(good)
        /\ { got[k].balance : k \in DOMAIN got }
             = { kv[i].asset.amount : i \in good }
        /\ \A k \in DOMAIN got :
             /\ got[k].account_name = call.account_name
             /\ got[k].contract = call.token_code
        /\ own = {} => got = <<>>

\* alice's balances at token.x, in a database whose first table is
\* token.x's supply statistics with one well-formed row and whose second
\* is her accounts table with a well-formed row and a row too short to
\* hold an asset: the one balance is that of the well-formed row of hers.
C22_Witness ==
  /\ call.op = "add_currency_balances"
  /\ call.account_name = "alice"
  /\ call.token_code = "token.x"
  /\ call.db.table_ids =
       << [code |-> "token.x", scope |-> "alice", table |-> "stat"],
          [code |-> "token.x", scope |-> "alice", table |-> "accounts"] >>
  /\ Len(call.db.key_values) = 3
  /\ call.db.key_values[1].t_id = 1
  /\ call.db.key_values[1].size >= SizeofAsset
  /\ call.db.key_values[1].asset.symbol_valid
  /\ call.db.key_values[2].t_id = 2
  /\ call.db.key_values[2].size = SizeofAsset
  /\ call.db.key_values[2].asset.symbol_valid
  /\ call.db.key_values[3].t_id = 2
  /\ call.db.key_values[3].size < SizeofAsset
  /\ Len(call.currency_balances) = 1
  /\ call.currency_balances[1].balance = call.db.key_values[2].asset.amount

====
